---------------------------- MODULE Spec2Model ----------------------------
(***************************************************************************)
(* Model of the Udemy platform of katomart (src/src/platforms/udemy.py):   *)
(* the browser capture race of UdemyTokenFetcher, the required-cookie      *)
(* check, the session built by authenticate, the paginated listing and     *)
(* curriculum crawl, the module/lesson fold and the video resolution.      *)
(*                                                                         *)
(* Text is modelled as a sequence of symbols.  A symbol is one character   *)
(* ("=", ";", " ", "/") or a run of characters that the code never looks   *)
(* inside other than as a whole (a cookie name, a path segment).           *)
(***************************************************************************)
EXTENDS Integers, Sequences, FiniteSets, TLC

VARIABLES
    \* ---- UdemyTokenFetcher._capture_authorization_header
    pc,                 \* position of the polling loop
    now,                \* time.time(), in seconds
    end_time,           \* the deadline computed at call start
    wake,               \* time at which the pending asyncio.sleep ends
    found_token_queue,  \* asyncio.Queue of (token, url)
    pending,            \* handle_request coroutines suspended in _build_cookie_payload
    jar,                \* cookies of the browser context (names)
    cookie_str,         \* local of the polling loop, kept while it is still read
    incomplete_logged,  \* "Cookies ainda incompletos" has been logged
    capture_result,     \* what the call returned
    \* ---- _has_required_cookies applied to one header
    cookies_in,         \* the cookies a header is made of
    header_sep,         \* separator the header is joined with
    cookie_value,       \* value every cookie of the header carries
    header_checked,     \* the check has run
    header_ok,          \* its verdict
    \* ---- UdemyPlatform.authenticate
    credentials,        \* the credentials given to authenticate
    fetch_token_calls,  \* calls of self._token_fetcher.fetch_token so far
    auth_error,         \* the exception authenticate ended with, "" when none
    token_data,         \* the artifact resolve_access_token returned
    session,            \* self._session: whether it exists, and its headers
    captured_storage,   \* self._captured_local_storage / _captured_session_storage
    op_log,             \* the calls made on the platform so far, with their outcome
    \* ---- UdemyPlatform.fetch_courses, fetch_course_content, _fetch_curriculum
    op,                 \* the call in progress
    crawl_pc,           \* its position
    error,              \* the exception that ended it, "" when none
    url,                \* url of fetch_courses
    all_courses,        \* all_courses of fetch_courses
    courses,            \* the batch given to fetch_course_content
    course_idx,         \* index of the course the for loop is at
    current_url,        \* current_url of _fetch_curriculum
    first_call,         \* first_call of _fetch_curriculum
    items,              \* items of _fetch_curriculum
    final_structure,    \* final_structure["modules"]
    http_log,           \* requests of the listing in progress: url, params, outcome
    served,             \* the pages the server answered them with
    feeds,              \* per finished course: what was fetched, what it added
    next_id,            \* id the server gives the next row or item
    \* ---- UdemyPlatform._get_video_details
    asset_response,     \* the answer of GET /api-2.0/assets/{asset_id}/
    video_result,       \* the (url, quality) returned
    \* ---- UdemyPlatform.fetch_lesson_details
    lesson,             \* the lesson record given to the call
    file_responses,     \* the answers of the asset lookups of its attachments
    lesson_content      \* the LessonContent returned, or the exception raised

captureVars == <<pc, now, end_time, wake, found_token_queue, pending, jar, cookie_str,
                 incomplete_logged, capture_result>>
cookieVars == <<cookies_in, header_sep, cookie_value, header_checked, header_ok>>
authVars == <<credentials, fetch_token_calls, auth_error, token_data, session,
              captured_storage, op_log>>
crawlVars == <<op, crawl_pc, error, url, all_courses, courses, course_idx,
               current_url, first_call, items, final_structure, http_log, served,
               feeds, next_id>>
videoVars == <<asset_response, video_result>>
lessonVars == <<lesson, file_responses, lesson_content>>
vars == <<captureVars, cookieVars, authVars, crawlVars, videoVars, lessonVars>>

----------------------------------------------------------------------------
(* Bounds of the model *)

\* seconds of network_idle_timeout_ms / 1000
Timeout == 8
\* artifacts the request listener has produced or is producing at one time
MaxQueue == 2
\* cookies in one header given to the required-cookie check
MaxCookies == 5
\* cookies in the cookie string of one artifact given to authenticate
MaxAuthCookies == 3
\* requests of one listing (fetch_courses, or _fetch_curriculum of one course)
MaxPages == 2
\* rows or curriculum items the server serves during one call
MaxItems == 4
\* courses in the batch given to fetch_course_content
MaxCourses == 2
\* media sources of one asset
MaxSources == 3
\* calls of authenticate and fetch_courses made on one platform object
MaxOps == 3
\* supplementary assets of one lecture
MaxSupps == 2

(* Program constants *)
SettleDelay == 4
IncompleteDelay == 3
PollInterval == 1

----------------------------------------------------------------------------
(* Text helpers: str.split, str.strip, str.startswith, str.join, `in` *)

Last(s) == s[Len(s)]

Contains(s, sym) == \E i \in 1..Len(s) : s[i] = sym

StartsWith(s, prefix) ==
    /\ Len(prefix) <= Len(s)
    /\ SubSeq(s, 1, Len(prefix)) = prefix

RECURSIVE Split(_, _)
Split(s, sep) ==
    IF ~Contains(s, sep) THEN <<s>>
    ELSE LET i == CHOOSE k \in 1..Len(s) :
                     /\ s[k] = sep
                     /\ \A j \in 1..(k - 1) : s[j] /= sep
         IN <<SubSeq(s, 1, i - 1)>> \o Split(SubSeq(s, i + 1, Len(s)), sep)

RECURSIVE LStrip(_, _)
LStrip(s, ch) ==
    IF s /= <<>> /\ Head(s) = ch THEN LStrip(Tail(s), ch) ELSE s

RECURSIVE RStrip(_, _)
RStrip(s, ch) ==
    IF s /= <<>> /\ Last(s) = ch THEN RStrip(SubSeq(s, 1, Len(s) - 1), ch) ELSE s

Strip(s, ch) == RStrip(LStrip(s, ch), ch)

RECURSIVE Join(_, _)
Join(parts, sep) ==
    IF parts = <<>> THEN <<>>
    ELSE IF Len(parts) = 1 THEN parts[1]
    ELSE parts[1] \o sep \o Join(Tail(parts), sep)

RECURSIVE Flatten(_)
Flatten(ss) == IF ss = <<>> THEN <<>> ELSE Head(ss) \o Flatten(Tail(ss))

SelectParts(parts) == SelectSeq(parts, LAMBDA p : Strip(p, " ") /= <<>>)

\* [part.strip() for part in cookie_header.split(";") if part.strip()]
cookie_parts(cookie_header) ==
    LET kept == SelectParts(Split(cookie_header, ";"))
    IN [i \in 1..Len(kept) |-> Strip(kept[i], " ")]

----------------------------------------------------------------------------
(* UdemyTokenFetcher._has_required_cookies *)

required == <<"cf_clearance", "csrftoken", "ud_cache_user", "dj_session_id">>

RequiredNames == {required[i] : i \in 1..Len(required)}

has_required_cookies_any_prefix(cookie_header) ==
    LET parts == cookie_parts(cookie_header)
    IN \A r \in 1..Len(required) :
          \E i \in 1..Len(parts) : StartsWith(parts[i], <<required[r]>>)

_has_required_cookies(cookie_header) ==
    LET parts == cookie_parts(cookie_header)
    IN \A r \in 1..Len(required) :
          \E i \in 1..Len(parts) : StartsWith(parts[i], <<required[r], "=">>)


----------------------------------------------------------------------------
(* Values handed between the fetcher and the platform *)

\* a Python str that is not JSON text
Str(text) == [is_json |-> FALSE, text |-> text,
              doc |-> [token_type |-> "", cookie |-> <<>>,
                       local_storage |-> "", session_storage |-> ""]]

\* json.dumps of a dict: JSON text opens with a brace
json_dumps(payload) == [is_json |-> TRUE, text |-> <<"{">>, doc |-> payload]

NoToken == Str(<<>>)

Running == [status |-> "running", has_token |-> FALSE, token |-> NoToken, url |-> <<>>]

Returned(token, from_url) ==
    [status |-> "returned", has_token |-> TRUE, token |-> token, url |-> from_url]

\* return None, None
ReturnedNone ==
    [status |-> "returned", has_token |-> FALSE, token |-> NoToken, url |-> <<>>]

----------------------------------------------------------------------------
(* The browser page observed by _capture_authorization_header *)

HomeUrl == <<"https://www.udemy.com/">>

UsersMeUrl == <<"https://www.udemy.com/", "api-2.0/", "users/me", "/">>

RequestUrls ==
    { UsersMeUrl,
      <<"https://www.udemy.com/", "api-2.0/", "visits/">>,
      <<"https://www.udemy.com/", "users/me", "/">> }

BearerHeader == <<"Bearer", " ", "tok">>

JarNames == RequiredNames

JarOrder == required

\* "; ".join([f"{c['name']}={c['value']}" for c in cookies])
CookieStr(cookies) ==
    LET names == SelectSeq(JarOrder, LAMBDA n : n \in cookies)
    IN Join([i \in 1..Len(names) |-> <<names[i], "=", "v">>], <<";", " ">>)

\* localStorage / sessionStorage read through page.evaluate, {} when it raises
StorageSnapshots == {"{}", "storage"}

\* UdemyTokenFetcher._build_cookie_payload
_build_cookie_payload(cookie_header, local_storage, session_storage) ==
    json_dumps([token_type |-> "cookie", cookie |-> cookie_header,
                local_storage |-> local_storage,
                session_storage |-> session_storage])

MaxTime == Timeout + SettleDelay + IncompleteDelay

RemoveAt(s, i) == SubSeq(s, 1, i - 1) \o SubSeq(s, i + 1, Len(s))

CaptureInit ==
    /\ pc = "loop"
    /\ now = 0
    /\ end_time = Timeout
    /\ wake = 0
    /\ found_token_queue = <<>>
    /\ pending = <<>>
    /\ jar = {}
    /\ cookie_str = <<>>
    /\ incomplete_logged = FALSE
    /\ capture_result = Running

\* the browser stores one more cookie while the user logs in
SetCookie ==
    /\ capture_result.status = "running"
    /\ \E c \in JarNames \ jar : jar' = jar \cup {c}
    /\ UNCHANGED <<pc, now, end_time, wake, found_token_queue, pending, cookie_str, capture_result, incomplete_logged>>
    /\ UNCHANGED <<cookieVars, authVars, crawlVars, videoVars, lessonVars>>

Tick ==
    /\ capture_result.status = "running"
    /\ now < MaxTime
    /\ now' = now + 1
    /\ UNCHANGED <<pc, end_time, wake, found_token_queue, pending, jar, cookie_str, capture_result, incomplete_logged>>
    /\ UNCHANGED <<cookieVars, authVars, crawlVars, videoVars, lessonVars>>

\* handle_request with the cookie check left out
handle_request_unchecked ==
    /\ capture_result.status = "running"
    /\ Len(found_token_queue) + Len(pending) < MaxQueue
    /\ \E request_url \in RequestUrls :
         IF Contains(request_url, "api-2.0/") /\ Contains(request_url, "users/me")
         THEN \E auth \in {<<>>, BearerHeader} :
              IF auth /= <<>>
              THEN /\ found_token_queue' =
                          Append(found_token_queue, [token |-> Str(auth), url |-> request_url,
                                                        in_time |-> now < end_time])
                   /\ UNCHANGED pending
              ELSE \E sent \in SUBSET jar :
                   IF CookieStr(sent) /= <<>>
                   THEN /\ pending' = Append(pending,
                                        [cookie |-> CookieStr(sent), url |-> request_url])
                        /\ UNCHANGED found_token_queue
                   ELSE UNCHANGED <<found_token_queue, pending>>
         ELSE UNCHANGED <<found_token_queue, pending>>
    /\ UNCHANGED <<pc, now, end_time, wake, jar, cookie_str,
                   capture_result, incomplete_logged>>
    /\ UNCHANGED <<cookieVars, authVars, crawlVars, videoVars, lessonVars>>

\* handle_request up to its first suspension: the page issues a request to url
\* with the headers auth and cookie (<<>> when the header is absent)
handle_request ==
    /\ capture_result.status = "running"
    /\ Len(found_token_queue) + Len(pending) < MaxQueue
    /\ \E request_url \in RequestUrls :
         IF Contains(request_url, "api-2.0/") /\ Contains(request_url, "users/me")
         THEN \E auth \in {<<>>, BearerHeader} :
              IF auth /= <<>>
              THEN /\ found_token_queue' =
                          Append(found_token_queue, [token |-> Str(auth), url |-> request_url,
                                                        in_time |-> now < end_time])
                   /\ UNCHANGED pending
              ELSE \E sent \in SUBSET jar :
                   IF CookieStr(sent) /= <<>>
                   THEN IF ~_has_required_cookies(CookieStr(sent))
                        THEN UNCHANGED <<found_token_queue, pending>>
                        ELSE /\ pending' = Append(pending,
                                             [cookie |-> CookieStr(sent), url |-> request_url])
                             /\ UNCHANGED found_token_queue
                   ELSE UNCHANGED <<found_token_queue, pending>>
         ELSE UNCHANGED <<found_token_queue, pending>>
    /\ UNCHANGED <<pc, now, end_time, wake, jar, cookie_str,
                   capture_result, incomplete_logged>>
    /\ UNCHANGED <<cookieVars, authVars, crawlVars, videoVars, lessonVars>>

\* handle_request resumed after _build_cookie_payload: the payload is enqueued
handle_request_put ==
    /\ capture_result.status = "running"
    /\ \E i \in 1..Len(pending), ls \in StorageSnapshots, ss \in StorageSnapshots :
         /\ found_token_queue' =
               Append(found_token_queue,
                      [token |-> _build_cookie_payload(pending[i].cookie, ls, ss),
                       url |-> pending[i].url, in_time |-> now < end_time])
         /\ pending' = RemoveAt(pending, i)
    /\ UNCHANGED <<pc, now, end_time, wake, jar, cookie_str, capture_result, incomplete_logged>>
    /\ UNCHANGED <<cookieVars, authVars, crawlVars, videoVars, lessonVars>>

\* while time.time() < end_time: ... found_token_queue.get_nowait()
LoopTest ==
    /\ pc = "loop"
    /\ IF now < end_time
       THEN IF found_token_queue /= <<>>
            THEN /\ capture_result' = Returned(Head(found_token_queue).token,
                                               Head(found_token_queue).url)
                 /\ found_token_queue' = Tail(found_token_queue)
                 /\ pc' = "done"
            ELSE /\ pc' = "is_logged_in"
                 /\ UNCHANGED <<found_token_queue, capture_result>>
       ELSE /\ capture_result' = ReturnedNone
            /\ pc' = "done"
            /\ UNCHANGED found_token_queue
    /\ UNCHANGED <<now, end_time, wake, pending, jar, cookie_str, incomplete_logged>>
    /\ UNCHANGED <<cookieVars, authVars, crawlVars, videoVars, lessonVars>>

\* UdemyTokenFetcher.is_logged_in: True when the page is off the login page and
\* shows the avatar or the my-courses link, False otherwise or when a locator raises
is_logged_in(on_join_page, avatar_count, courses_link_count, raised) ==
    IF raised \/ on_join_page THEN FALSE
    ELSE IF avatar_count > 0 THEN TRUE
    ELSE courses_link_count > 0

\* if await self.is_logged_in(page): asyncio.sleep(4) ... else asyncio.sleep(1)
CheckLoggedIn ==
    /\ pc = "is_logged_in"
    /\ \E on_join_page \in BOOLEAN, avatar_count \in 0..1,
          courses_link_count \in 0..1, raised \in BOOLEAN :
         IF is_logged_in(on_join_page, avatar_count, courses_link_count, raised)
         THEN pc' = "settle" /\ wake' = now + SettleDelay
         ELSE pc' = "poll_sleep" /\ wake' = now + PollInterval
    /\ UNCHANGED <<now, end_time, found_token_queue, pending, jar,
                   cookie_str, capture_result, incomplete_logged>>
    /\ UNCHANGED <<cookieVars, authVars, crawlVars, videoVars, lessonVars>>

\* the settle delay is over: cookies = await page.context.cookies()
SettleDone ==
    /\ pc = "settle"
    /\ now >= wake
    /\ pc' = "cookies"
    /\ wake' = 0
    /\ UNCHANGED <<now, end_time, found_token_queue, pending, jar, cookie_str, capture_result, incomplete_logged>>
    /\ UNCHANGED <<cookieVars, authVars, crawlVars, videoVars, lessonVars>>

\* ReadCookies returning whatever the jar holds
ReadCookies_unchecked ==
    /\ pc = "cookies"
    /\ IF CookieStr(jar) /= <<>>
       THEN pc' = "build" /\ cookie_str' = CookieStr(jar) /\ UNCHANGED wake
       ELSE pc' = "poll_sleep" /\ wake' = now + PollInterval /\ UNCHANGED cookie_str
    /\ UNCHANGED <<now, end_time, found_token_queue, pending, jar, capture_result, incomplete_logged>>
    /\ UNCHANGED <<cookieVars, authVars, crawlVars, videoVars, lessonVars>>

\* cookie_str is built from the jar and checked; the model keeps it only on the
\* branch that reads it again
ReadCookies ==
    /\ pc = "cookies"
    /\ IF CookieStr(jar) /= <<>>
       THEN IF ~_has_required_cookies(CookieStr(jar))
            THEN /\ pc' = "incomplete_sleep"
                 /\ wake' = now + IncompleteDelay
                 /\ incomplete_logged' = TRUE
                 /\ UNCHANGED cookie_str
            ELSE /\ pc' = "build"
                 /\ cookie_str' = CookieStr(jar)
                 /\ UNCHANGED <<wake, incomplete_logged>>
       ELSE /\ pc' = "poll_sleep"
            /\ wake' = now + PollInterval
            /\ UNCHANGED <<cookie_str, incomplete_logged>>
    /\ UNCHANGED <<now, end_time, found_token_queue, pending, jar, capture_result>>
    /\ UNCHANGED <<cookieVars, authVars, crawlVars, videoVars, lessonVars>>

\* asyncio.sleep(3); continue   and   asyncio.sleep(1) at the end of the body
SleepDone ==
    /\ pc \in {"incomplete_sleep", "poll_sleep"}
    /\ now >= wake
    /\ pc' = "loop"
    /\ wake' = 0
    /\ UNCHANGED <<now, end_time, found_token_queue, pending, jar, cookie_str, capture_result, incomplete_logged>>
    /\ UNCHANGED <<cookieVars, authVars, crawlVars, videoVars, lessonVars>>

\* payload = await self._build_cookie_payload(page, cookie_str); return payload, page.url
ReturnCookies ==
    /\ pc = "build"
    /\ \E ls \in StorageSnapshots, ss \in StorageSnapshots :
         capture_result' = Returned(_build_cookie_payload(cookie_str, ls, ss), HomeUrl)
    /\ pc' = "done"
    /\ UNCHANGED <<now, end_time, wake, found_token_queue, pending, jar, cookie_str, incomplete_logged>>
    /\ UNCHANGED <<cookieVars, authVars, crawlVars, videoVars, lessonVars>>

CaptureNext ==
    \/ SetCookie
    \/ Tick
    \/ handle_request
    \/ handle_request_put
    \/ LoopTest
    \/ CheckLoggedIn
    \/ SettleDone
    \/ ReadCookies
    \/ SleepDone
    \/ ReturnCookies

----------------------------------------------------------------------------
(* UdemyPlatform.authenticate and the session it builds *)

NoHeaders == [h \in {} |-> <<>>]

NoSession == [open |-> FALSE, headers |-> NoHeaders]

NoStorage == [local_storage |-> "{}", session_storage |-> "{}"]

SetHeader(headers, name, value) == (name :> value) @@ headers

\* str.lower on the words the code compares in lower case
LowerSym(sym) == IF sym \in {"Bearer", "BEARER"} THEN "bearer" ELSE sym

Lower(text) == [i \in 1..Len(text) |-> LowerSym(text[i])]

\* "csrftoken=" in cookie_content
ContainsPair(text, a, b) ==
    \E i \in 1..(Len(text) - 1) : text[i] = a /\ text[i + 1] = b

\* p.split("=", 1) of a part that holds "="
KeyOf(part) == Split(part, "=")[1]

ValueOf(part) == SubSeq(part, Len(KeyOf(part)) + 2, Len(part))

\* the first part that starts with csrftoken=, 0 when there is none
RECURSIVE FirstCsrfPart(_, _)
FirstCsrfPart(parts, i) ==
    IF i > Len(parts) THEN 0
    ELSE IF StartsWith(Strip(parts[i], " "), <<"csrftoken", "=">>) THEN i
    ELSE FirstCsrfPart(parts, i + 1)

\* the csrftoken block of _apply_cookie_headers
ApplyCsrf(headers, cookie_content) ==
    LET parts == Split(cookie_content, ";")
        i == FirstCsrfPart(parts, 1)
    IN IF ContainsPair(cookie_content, "csrftoken", "=") /\ i > 0
       THEN SetHeader(headers, "X-CSRFToken", ValueOf(Strip(parts[i], " ")))
       ELSE headers

\* kv of _apply_cookie_headers: the value of the last part whose key is cookie_key,
\* <<>> when no part has it (kv.get gives None, which is as falsy as "")
RECURSIVE KvGet(_, _, _)
KvGet(parts, cookie_key, i) ==
    IF i = 0 THEN <<>>
    ELSE IF Contains(parts[i], "=") /\ KeyOf(parts[i]) = <<cookie_key>>
         THEN ValueOf(parts[i])
    ELSE KvGet(parts, cookie_key, i - 1)

\* the (header, cookie) pairs given to _set_if_present, in call order
CacheHeaders ==
    << <<"X-Udemy-Cache-Release", "ud_cache_release">>,
       <<"X-Udemy-Cache-User", "ud_cache_user">>,
       <<"X-Udemy-Cache-Brand", "ud_cache_brand">>,
       <<"X-Udemy-Cache-Marketplace-Country", "ud_cache_marketplace_country">>,
       <<"X-Udemy-Cache-Price-Country", "ud_cache_price_country">>,
       <<"X-Udemy-Cache-Version", "ud_cache_version">>,
       <<"X-Udemy-Cache-Language", "ud_cache_language">>,
       <<"X-Udemy-Cache-Device", "ud_cache_device">>,
       <<"X-Udemy-Cache-Campaign-Code", "ud_cache_campaign_code">>,
       <<"X-Udemy-Client-Id", "client_id">> >>

\* _set_if_present without the test of the value
set_if_present_unconditionally(headers, header_name, cookie_key, parts) ==
    SetHeader(headers, header_name, KvGet(parts, cookie_key, Len(parts)))

\* _set_if_present
_set_if_present(headers, header_name, cookie_key, parts) ==
    IF KvGet(parts, cookie_key, Len(parts)) /= <<>>
    THEN SetHeader(headers, header_name, KvGet(parts, cookie_key, Len(parts)))
    ELSE headers

RECURSIVE ApplyCache(_, _, _)
ApplyCache(headers, parts, n) ==
    IF n > Len(CacheHeaders) THEN headers
    ELSE ApplyCache(_set_if_present(headers, CacheHeaders[n][1], CacheHeaders[n][2], parts),
                    parts, n + 1)

\* UdemyPlatform._apply_cookie_headers
_apply_cookie_headers(headers, cookie_content) ==
    LET companions ==
            SetHeader(SetHeader(SetHeader(SetHeader(headers,
                "Cookie", cookie_content),
                "X-Requested-With", <<"XMLHttpRequest">>),
                "Accept", <<"application/json, text/plain, */*">>),
                "X-Udemy-Cache-Logged-In", <<"1">>)
    IN ApplyCache(ApplyCsrf(companions, cookie_content),
                  cookie_parts(cookie_content), 1)

\* UdemyPlatform._try_parse_cookie_payload: the parsed dict, or None
PayloadParses(token) ==
    /\ token.is_json
    /\ token.doc.token_type = "cookie"
    /\ token.doc.cookie /= <<>>

\* headers of a fresh requests.Session after the update of authenticate
BaseHeaders ==
    SetHeader(SetHeader(SetHeader(SetHeader(NoHeaders,
        "User-Agent", <<"user_agent">>),
        "Referer", <<"https://www.udemy.com/home/my-courses/learning/">>),
        "Accept-Language", <<"pt-BR">>),
        "Sec-GPC", <<"1">>)

\* cookie_content of authenticate, <<>> for None
CookieContent(token) ==
    IF PayloadParses(token) THEN token.doc.cookie
    ELSE IF StartsWith(token.text, <<"Cookie:">>) THEN Tail(token.text)
    ELSE <<>>

\* authenticate without its last branch: a string it does not recognise leaves
\* the session with the browser headers only
SessionHeaders_no_fallback(token) ==
    IF CookieContent(token) /= <<>>
    THEN _apply_cookie_headers(BaseHeaders, CookieContent(token))
    ELSE IF StartsWith(Lower(token.text), <<"bearer", " ">>)
         THEN SetHeader(BaseHeaders, "Authorization", token.text)
    ELSE BaseHeaders

\* authenticate that takes whatever is not a cookie payload for a raw cookie header
SessionHeaders_no_bearer(token) ==
    IF CookieContent(token) /= <<>>
    THEN _apply_cookie_headers(BaseHeaders, CookieContent(token))
    ELSE _apply_cookie_headers(BaseHeaders, token.text)

\* the headers authenticate leaves on the session for the artifact token
SessionHeaders(token) ==
    IF CookieContent(token) /= <<>>
    THEN _apply_cookie_headers(BaseHeaders, CookieContent(token))
    ELSE IF StartsWith(Lower(token.text), <<"bearer", " ">>)
         THEN SetHeader(BaseHeaders, "Authorization", token.text)
    ELSE _apply_cookie_headers(BaseHeaders, token.text)

\* cookies an artifact may carry
AuthCookieNames ==
    <<"cf_clearance", "csrftoken", "ud_cache_user", "dj_session_id",
      "ud_cache_release", "client_id">>

AuthCookieStr(cookies) ==
    LET names == SelectSeq(AuthCookieNames, LAMBDA n : n \in cookies)
    IN Join([i \in 1..Len(names) |-> <<names[i], "=", "v">>], <<";", " ">>)

AuthCookieSets ==
    {c \in SUBSET {AuthCookieNames[i] : i \in 1..Len(AuthCookieNames)} :
        Cardinality(c) <= MaxAuthCookies}

\* names of the cookies of a browser cookie string: the ten that have a header
\* of their own, and two that have none
CookiePool ==
    [i \in 1..Len(CacheHeaders) |-> CacheHeaders[i][2]] \o <<"csrftoken", "other">>

\* cookie strings of up to MaxAuthCookies cookies, in the order of CookiePool,
\* each with a value of its own or with the empty value ("name=")
CookieStrings ==
    UNION {{Join([i \in 1..Len(SelectSeq(CookiePool, LAMBDA n : n \in c)) |->
                    LET n == SelectSeq(CookiePool, LAMBDA m : m \in c)[i]
                    IN IF n \in e THEN <<n, "=">> ELSE <<n, "=", "value of " \o n>>],
                 <<";", " ">>) : e \in SUBSET c} :
             c \in {d \in SUBSET {CookiePool[i] : i \in 1..Len(CookiePool)} :
                       Cardinality(d) \in 1..MaxAuthCookies}}

BearerTokens ==
    { <<"Bearer", " ", "abc123">>, <<"bearer", " ", "abc123">>,
      <<"BEARER", " ", "abc123">> }

\* the strings resolve_access_token may hand to authenticate
Artifacts ==
    {Str(t) : t \in BearerTokens}
      \cup {Str(AuthCookieStr(c)) : c \in AuthCookieSets}
      \cup {Str(<<"Cookie:">> \o AuthCookieStr(c)) : c \in AuthCookieSets}
      \cup {Str(<<"Bearer">>), Str(<<"abc123">>)}
      \cup {Str(c) : c \in CookieStrings}
      \cup {_build_cookie_payload(AuthCookieStr(c), ls, "storage") :
               c \in AuthCookieSets, ls \in StorageSnapshots}
      \cup {json_dumps([token_type |-> "bearer", cookie |-> AuthCookieStr(c),
                        local_storage |-> "{}", session_storage |-> "{}"]) :
               c \in AuthCookieSets}

\* credentials.get("browser_emulation"): the key absent, or a boolean
EmulationSettings == {"absent", "False", "True"}

NoCredentials == [browser_emulation |-> "absent"]

\* bool(credentials.get("browser_emulation"))
use_browser_emulation(creds) == creds.browser_emulation = "True"

\* what self._token_fetcher.fetch_token does when it is called: it raises (no
\* artifact before the timeout, the browser failed), or returns an artifact
FetchOutcomes ==
    {[raised |-> TRUE, token |-> NoToken]}
        \cup {[raised |-> FALSE, token |-> a] : a \in Artifacts}

ExchangeFailed(invoked) ==
    [raised |-> TRUE, error |-> "ConnectionError", token |-> NoToken,
     fetcher_invoked |-> invoked]

\* the exchange that goes to the token fetcher whatever the credentials say
exchange_without_emulation_test(creds, fetched) ==
    IF fetched.raised THEN ExchangeFailed(TRUE)
    ELSE [raised |-> FALSE, error |-> "", token |-> fetched.token,
          fetcher_invoked |-> TRUE]

\* UdemyPlatform._exchange_credentials_for_token; fetched is what fetch_token
\* does if it is called
_exchange_credentials_for_token(creds, fetched) ==
    IF ~use_browser_emulation(creds) THEN ExchangeFailed(FALSE)
    ELSE IF fetched.raised THEN ExchangeFailed(TRUE)
    ELSE [raised |-> FALSE, error |-> "", token |-> fetched.token,
          fetcher_invoked |-> TRUE]

\* BasePlatform.resolve_access_token: the artifact of the exchange, or its error
resolve_access_token(creds, fetched) == _exchange_credentials_for_token(creds, fetched)

AuthIdle ==
    /\ op_log = <<>>
    /\ credentials = NoCredentials
    /\ fetch_token_calls = 0
    /\ auth_error = ""
    /\ token_data = NoToken
    /\ session = NoSession
    /\ captured_storage = NoStorage

\* authenticate that builds the session before it resolves the artifact
Authenticate_session_first(creds, outcomes) ==
    /\ credentials' = creds
    /\ \E fetched \in outcomes :
         LET resolved == resolve_access_token(creds, fetched)
         IN /\ fetch_token_calls' =
                  fetch_token_calls + (IF resolved.fetcher_invoked THEN 1 ELSE 0)
            /\ IF resolved.raised
               THEN /\ auth_error' = resolved.error
                    /\ op_log' = Append(op_log, "authenticate_failed")
                    /\ session' = [open |-> TRUE, headers |-> BaseHeaders]
                    /\ UNCHANGED <<token_data, captured_storage>>
               ELSE /\ auth_error' = ""
                    /\ op_log' = Append(op_log, "authenticated")
                    /\ token_data' = resolved.token
                    /\ session' = [open |-> TRUE,
                                   headers |-> SessionHeaders(resolved.token)]
                    /\ captured_storage' =
                          IF PayloadParses(resolved.token)
                          THEN [local_storage |-> resolved.token.doc.local_storage,
                                session_storage |-> resolved.token.doc.session_storage]
                          ELSE captured_storage

\* the body of UdemyPlatform.authenticate(creds): the artifact is resolved, and
\* when that does not raise a fresh session is built from it; outcomes is what
\* fetch_token may do
Authenticate(creds, outcomes) ==
    /\ credentials' = creds
    /\ \E fetched \in outcomes :
         LET resolved == resolve_access_token(creds, fetched)
         IN /\ fetch_token_calls' =
                  fetch_token_calls + (IF resolved.fetcher_invoked THEN 1 ELSE 0)
            /\ IF resolved.raised
               THEN /\ auth_error' = resolved.error
                    /\ op_log' = Append(op_log, "authenticate_failed")
                    /\ UNCHANGED <<token_data, session, captured_storage>>
               ELSE /\ auth_error' = ""
                    /\ op_log' = Append(op_log, "authenticated")
                    /\ token_data' = resolved.token
                    /\ session' = [open |-> TRUE,
                                   headers |-> SessionHeaders(resolved.token)]
                    /\ captured_storage' =
                          IF PayloadParses(resolved.token)
                          THEN [local_storage |-> resolved.token.doc.local_storage,
                                session_storage |-> resolved.token.doc.session_storage]
                          ELSE captured_storage

\* UdemyPlatform.authenticate, called once on a new platform object
authenticate ==
    /\ ~session.open
    /\ auth_error = ""
    /\ Authenticate(credentials, FetchOutcomes)
    /\ UNCHANGED <<captureVars, cookieVars, crawlVars, videoVars, lessonVars>>

----------------------------------------------------------------------------
(* The Udemy API as fetch_courses and _fetch_curriculum see it *)

ListingUrl == <<"https://www.udemy.com/", "api-2.0/users/me/subscribed-courses/">>

CurriculumUrl(course_id) ==
    <<"https://www.udemy.com/", "api-2.0/courses/">> \o course_id
        \o <<"/subscriber-curriculum-items/">>

\* the `next` of a page: <<>> for null, or the URL of the following page, in the
\* page-number or in the cursor form
NextOf(base) ==
    {<<>>, base \o <<"?", "page=", "2">>, base \o <<"?", "cursor=", "abc">>}

\* resp.raise_for_status() that lets every response through
raise_for_status_never(ok) == FALSE

\* resp.raise_for_status(): raises on an error status
raise_for_status(ok) == ~ok

\* relative URLs of a listing row: absent, /course/python/, /draft/
RowUrls ==
    { [has_url |-> FALSE, url |-> <<>>],
      [has_url |-> TRUE, url |-> <<"/", "course", "/", "python", "/">>],
      [has_url |-> TRUE, url |-> <<"/", "draft", "/">>] }

\* the rows of one page: ids first, first + 1, ...
RowPages(first) ==
    UNION {{[i \in 1..n |-> [id |-> first + i - 1,
                             has_url |-> shape[i].has_url,
                             url |-> shape[i].url]] :
               shape \in [1..n -> RowUrls]} : n \in 0..(MaxItems + 1 - first)}

Kinds == {"chapter", "lecture", "quiz"}

\* the curriculum items of one page
ItemPages(first) ==
    UNION {{[i \in 1..n |-> [_class |-> kind[i],
                             id |-> first + i - 1,
                             title |-> <<"title", ToString(first + i - 1)>>,
                             asset |-> "None",
                             supplementary_assets |-> "None"]] :
               kind \in [1..n -> Kinds]} : n \in 0..(MaxItems + 1 - first)}

\* result.get("url", "").strip("/").split("/")
UrlSegments(row) == Split(Strip(row.url, "/"), "/")

\* the [-2] of the slug expression raises IndexError
SlugRaises(row) == row.has_url /\ row.url /= <<>> /\ Len(UrlSegments(row)) < 2

Slug(row) ==
    IF row.has_url /\ row.url /= <<>>
    THEN UrlSegments(row)[Len(UrlSegments(row)) - 1]
    ELSE <<>>

\* the dict fetch_courses appends for one row
Course(row) ==
    [id |-> <<ToString(row.id)>>,
     name |-> <<"title", ToString(row.id)>>,
     url |-> <<"https://www.udemy.com">> \o (IF row.has_url THEN row.url ELSE <<"None">>),
     image |-> <<"image", ToString(row.id)>>,
     slug |-> IF SlugRaises(row) THEN <<>> ELSE Slug(row)]

Courses(rows) == [i \in 1..Len(rows) |-> Course(rows[i])]

\* is_initial of fetch_courses
is_initial(u) ==
    Contains(u, "api-2.0/users/me/subscribed-courses/") /\ ~Contains(u, "page=")

CrawlIdle ==
    /\ op = "none"
    /\ crawl_pc = "returned"
    /\ error = ""
    /\ url = <<>>
    /\ all_courses = <<>>
    /\ courses = <<>>
    /\ course_idx = 0
    /\ current_url = <<>>
    /\ first_call = FALSE
    /\ items = <<>>
    /\ final_structure = <<>>
    /\ http_log = <<>>
    /\ served = <<>>
    /\ feeds = <<>>
    /\ next_id = 1

\* fetch_courses up to its loop
fetch_courses ==
    /\ op = "fetch_courses"
    /\ crawl_pc = "start"
    /\ IF ~session.open
       THEN crawl_pc' = "raised" /\ error' = "ConnectionError" /\ UNCHANGED url
       ELSE crawl_pc' = "loop" /\ url' = ListingUrl /\ UNCHANGED error
    /\ UNCHANGED <<op, all_courses, courses, course_idx, current_url, first_call,
                   items, final_structure, http_log, served, feeds, next_id>>
    /\ UNCHANGED <<captureVars, cookieVars, authVars, videoVars, lessonVars>>

\* one iteration of the while loop of fetch_courses, and the return after the
\* iteration that sets url to None
fetch_courses_page ==
    /\ op = "fetch_courses"
    /\ crawl_pc = "loop"
    /\ Len(http_log) < MaxPages
    /\ \E ok \in BOOLEAN :
         /\ http_log' = Append(http_log,
                [url |-> url,
                 params |-> IF is_initial(url) THEN "listing" ELSE "none",
                 ok |-> ok])
         /\ IF raise_for_status(ok)
            THEN /\ crawl_pc' = "raised"
                 /\ error' = "HTTPError"
                 /\ UNCHANGED <<url, all_courses, served, next_id>>
            ELSE \E rows \in RowPages(next_id), next \in NextOf(ListingUrl) :
                 /\ served' = Append(served, [results |-> rows, next |-> next])
                 /\ next_id' = next_id + Len(rows)
                 /\ IF \E i \in 1..Len(rows) : SlugRaises(rows[i])
                    THEN /\ crawl_pc' = "raised"
                         /\ error' = "IndexError"
                         /\ UNCHANGED <<url, all_courses>>
                    ELSE /\ all_courses' = all_courses \o Courses(rows)
                         /\ url' = next
                         /\ crawl_pc' = IF next = <<>> THEN "returned" ELSE "loop"
                         /\ UNCHANGED error
    /\ UNCHANGED <<op, courses, course_idx, current_url, first_call, items,
                   final_structure, feeds>>
    /\ UNCHANGED <<captureVars, cookieVars, authVars, videoVars, lessonVars>>

----------------------------------------------------------------------------
(* The grouping of fetch_course_content *)

IsChapter(item) == item._class = "chapter"

IsLecture(item) == item._class = "lecture"

\* the lesson dict appended for a lecture
Lesson(item) ==
    [id |-> <<ToString(item.id)>>, name |-> item.title, asset |-> item.asset,
     supplementary_assets |-> item.supplementary_assets]

DefaultModule(course) ==
    [id |-> <<"c_">> \o course.id \o <<"_default">>, name |-> course.name,
     lessons |-> <<>>]

StartupModule(course) ==
    [id |-> <<"c_">> \o course.id \o <<"_startup">>, name |-> <<"Introduction">>,
     lessons |-> <<>>]

ChapterModule(item) ==
    [id |-> <<ToString(item.id)>>, name |-> item.title, lessons |-> <<>>]

\* a fold state: the modules so far and the index of current_module in them,
\* 0 for None
AppendCurrent(modules, module) ==
    [modules |-> Append(modules, module), current |-> Len(modules) + 1]

\* the grouping that never pre-creates the default module
StartGrouping_no_default(course, curriculum, modules) ==
    [modules |-> modules, current |-> 0]

\* the grouping whose current_module survives from the course before
StartGrouping_carry_over(course, curriculum, modules) ==
    IF ~\E i \in 1..Len(curriculum) : IsChapter(curriculum[i])
    THEN AppendCurrent(modules, DefaultModule(course))
    ELSE [modules |-> modules, current |-> Len(modules)]

\* current_module = None, and the default module when no item is a chapter
StartGrouping(course, curriculum, modules) ==
    IF ~\E i \in 1..Len(curriculum) : IsChapter(curriculum[i])
    THEN AppendCurrent(modules, DefaultModule(course))
    ELSE [modules |-> modules, current |-> 0]

\* the lesson put in front of the lessons of the current module
AddLesson_in_front(st, item) ==
    [st EXCEPT !.modules[st.current].lessons = <<Lesson(item)>> \o @]

\* current_module["lessons"].append({...})
AddLesson(st, item) ==
    [st EXCEPT !.modules[st.current].lessons = Append(@, Lesson(item))]

\* the loop body in which an item of another kind closes the current module
GroupItem_other_closes(course, item, st) ==
    IF IsChapter(item) THEN AppendCurrent(st.modules, ChapterModule(item))
    ELSE IF IsLecture(item)
         THEN IF st.current = 0
              THEN AddLesson(AppendCurrent(st.modules, StartupModule(course)), item)
              ELSE AddLesson(st, item)
    ELSE [st EXCEPT !.current = 0]

\* the loop body that gives every lecture met without a current module a
\* startup module of its own and forgets it
GroupItem_forgetful(course, item, st) ==
    IF IsChapter(item) THEN AppendCurrent(st.modules, ChapterModule(item))
    ELSE IF IsLecture(item)
         THEN IF st.current = 0
              THEN [AddLesson(AppendCurrent(st.modules, StartupModule(course)), item)
                       EXCEPT !.current = 0]
              ELSE AddLesson(st, item)
    ELSE st

\* the body of `for item in curriculum`
GroupItem(course, item, st) ==
    IF IsChapter(item) THEN AppendCurrent(st.modules, ChapterModule(item))
    ELSE IF IsLecture(item)
         THEN IF st.current = 0
              THEN AddLesson(AppendCurrent(st.modules, StartupModule(course)), item)
              ELSE AddLesson(st, item)
    ELSE st

RECURSIVE GroupItems(_, _, _, _)
GroupItems(course, curriculum, i, st) ==
    IF i > Len(curriculum) THEN st
    ELSE GroupItems(course, curriculum, i + 1, GroupItem(course, curriculum[i], st))

\* final_structure["modules"] after the try block of one course
GroupCurriculum(course, curriculum, modules) ==
    GroupItems(course, curriculum, 1, StartGrouping(course, curriculum, modules)).modules

\* the for loop of fetch_course_content moves to course i, or the call returns
BeginCourse(i) ==
    /\ course_idx' = i
    /\ items' = <<>>
    /\ http_log' = <<>>
    /\ served' = <<>>
    /\ IF i > Len(courses)
       THEN crawl_pc' = "returned" /\ current_url' = <<>> /\ first_call' = FALSE
       ELSE /\ crawl_pc' = "fetch"
            /\ current_url' = CurriculumUrl(courses[i].id)
            /\ first_call' = TRUE

\* except Exception: the course is logged and left out
SkipCourse ==
    /\ feeds' = Append(feeds, [failed |-> TRUE, items |-> <<>>, modules |-> <<>>])
    /\ BeginCourse(course_idx + 1)
    /\ UNCHANGED final_structure

\* fetch_course_content up to the first course
fetch_course_content ==
    /\ op = "fetch_course_content"
    /\ crawl_pc = "start"
    /\ final_structure' = <<>>
    /\ BeginCourse(1)
    /\ UNCHANGED <<op, error, url, all_courses, courses, feeds, next_id>>
    /\ UNCHANGED <<captureVars, cookieVars, authVars, videoVars, lessonVars>>

\* one iteration of the while loop of _fetch_curriculum for the course at hand
_fetch_curriculum ==
    /\ op = "fetch_course_content"
    /\ crawl_pc = "fetch"
    /\ Len(http_log) < MaxPages
    /\ IF ~session.open
       THEN SkipCourse /\ UNCHANGED next_id
       ELSE \E ok \in BOOLEAN :
              IF raise_for_status(ok)
              THEN SkipCourse /\ UNCHANGED next_id
              ELSE \E results \in ItemPages(next_id),
                      next \in NextOf(CurriculumUrl(courses[course_idx].id)) :
                   /\ http_log' = Append(http_log,
                          [url |-> current_url,
                           params |-> IF first_call THEN "curriculum" ELSE "none",
                           ok |-> ok])
                   /\ served' = Append(served, [results |-> results, next |-> next])
                   /\ next_id' = next_id + Len(results)
                   /\ items' = items \o results
                   /\ current_url' = next
                   /\ first_call' = FALSE
                   /\ crawl_pc' = IF next = <<>> THEN "group" ELSE "fetch"
                   /\ UNCHANGED <<course_idx, final_structure, feeds>>
    /\ UNCHANGED <<op, error, url, all_courses, courses>>
    /\ UNCHANGED <<captureVars, cookieVars, authVars, videoVars, lessonVars>>

\* the grouping of the fetched curriculum, then the next course
fetch_course_content_group ==
    /\ op = "fetch_course_content"
    /\ crawl_pc = "group"
    /\ final_structure' = GroupCurriculum(courses[course_idx], items, final_structure)
    /\ feeds' = Append(feeds,
          [failed |-> FALSE, items |-> items,
           modules |-> SubSeq(final_structure', Len(final_structure) + 1,
                              Len(final_structure'))])
    /\ BeginCourse(course_idx + 1)
    /\ UNCHANGED <<op, error, url, all_courses, courses, next_id>>
    /\ UNCHANGED <<captureVars, cookieVars, authVars, videoVars, lessonVars>>

----------------------------------------------------------------------------
(* UdemyPlatform._get_video_details; a label is a sequence of characters *)

DigitValue(c) ==
    CASE c = "0" -> 0 [] c = "1" -> 1 [] c = "2" -> 2 [] c = "3" -> 3
      [] c = "4" -> 4 [] c = "5" -> 5 [] c = "6" -> 6 [] c = "7" -> 7
      [] c = "8" -> 8 [] c = "9" -> 9 [] OTHER -> 0

IsDigit(c) == c \in {"0", "1", "2", "3", "4", "5", "6", "7", "8", "9"}

RECURSIVE Number(_)
Number(text) ==
    IF text = <<>> THEN 0
    ELSE 10 * Number(SubSeq(text, 1, Len(text) - 1)) + DigitValue(Last(text))

\* str.replace(ch, "")
Remove(text, ch) == SelectSeq(text, LAMBDA c : c /= ch)

\* int(text) of a text of digits; any other text of the labels below raises
IntRaises(text) == text = <<>> \/ \E i \in 1..Len(text) : ~IsDigit(text[i])

\* res of one media source: int(label.replace("p", "")), 0 when that raises
Res(source) ==
    LET label == IF source.has_label THEN source.label ELSE <<"0">>
    IN IF IntRaises(Remove(label, "p")) THEN 0 ELSE Number(Remove(label, "p"))

\* the loop with >= for >, so that the last of several equal sources wins
RECURSIVE BestSource_last_wins(_, _, _, _)
BestSource_last_wins(media_sources, i, best, max_res) ==
    IF i > Len(media_sources) THEN best
    ELSE IF Res(media_sources[i]) >= max_res
         THEN BestSource_last_wins(media_sources, i + 1, i, Res(media_sources[i]))
    ELSE BestSource_last_wins(media_sources, i + 1, best, max_res)

\* the loop over media_sources from source i on: the index of best, 0 for None
RECURSIVE BestSource(_, _, _, _)
BestSource(media_sources, i, best, max_res) ==
    IF i > Len(media_sources) THEN best
    ELSE IF Res(media_sources[i]) > max_res
         THEN BestSource(media_sources, i + 1, i, Res(media_sources[i]))
    ELSE BestSource(media_sources, i + 1, best, max_res)

NoVideo == [has_url |-> FALSE, url |-> <<>>, has_quality |-> TRUE, quality |-> <<>>]

\* best.get("src"), best.get("label")
FromSource(source) ==
    [has_url |-> TRUE, url |-> source.src,
     has_quality |-> source.has_label,
     quality |-> IF source.has_label THEN source.label ELSE <<>>]

\* the resolution that looks at download_urls before media_sources
VideoDetails_download_first(resp) ==
    IF raise_for_status(resp.ok) THEN NoVideo
    ELSE IF resp.download_videos /= <<>>
         THEN [has_url |-> TRUE, url |-> resp.download_videos[1],
               has_quality |-> TRUE, quality |-> <<"Download">>]
    ELSE IF resp.media_sources /= <<>>
            /\ BestSource(resp.media_sources, 1, 0, -1) /= 0
         THEN FromSource(resp.media_sources[BestSource(resp.media_sources, 1, 0, -1)])
    ELSE NoVideo

\* what _get_video_details returns for the response resp
VideoDetails(resp) ==
    IF raise_for_status(resp.ok) THEN NoVideo
    ELSE IF resp.media_sources /= <<>>
            /\ BestSource(resp.media_sources, 1, 0, -1) /= 0
         THEN FromSource(resp.media_sources[BestSource(resp.media_sources, 1, 0, -1)])
    ELSE IF resp.download_videos /= <<>>
         THEN [has_url |-> TRUE, url |-> resp.download_videos[1],
               has_quality |-> TRUE, quality |-> <<"Download">>]
    ELSE NoVideo

\* quality labels the API serves: 480p, 720p, 1080p, 720, Auto, the empty label
Labels ==
    { <<"4", "8", "0", "p">>, <<"7", "2", "0", "p">>, <<"1", "0", "8", "0", "p">>,
      <<"7", "2", "0">>, <<"A", "u", "t", "o">>, <<>> }

\* a media source: with one of the labels, or without the label key
SourceShapes ==
    {[has_label |-> TRUE, label |-> l] : l \in Labels}
        \cup {[has_label |-> FALSE, label |-> <<>>]}

SourceLists ==
    UNION {{[i \in 1..n |-> [has_label |-> shape[i].has_label,
                             label |-> shape[i].label,
                             src |-> <<"src", ToString(i)>>]] :
               shape \in [1..n -> SourceShapes]} : n \in 0..MaxSources}

\* download_urls.Video: absent or empty, or one file
DownloadLists == {<<>>, << <<"file", "1">> >>}

AssetResponses ==
    [ok : BOOLEAN, media_sources : SourceLists, download_videos : DownloadLists]

VideoIdle ==
    /\ asset_response = [ok |-> FALSE, media_sources |-> <<>>, download_videos |-> <<>>]
    /\ video_result = [done |-> FALSE, value |-> NoVideo]

\* UdemyPlatform._get_video_details
_get_video_details ==
    /\ ~video_result.done
    /\ video_result' = [done |-> TRUE, value |-> VideoDetails(asset_response)]
    /\ UNCHANGED asset_response
    /\ UNCHANGED <<captureVars, cookieVars, authVars, crawlVars, lessonVars>>

----------------------------------------------------------------------------
(* UdemyPlatform.fetch_lesson_details and _get_attachment_url *)

\* item.get("asset") of a lecture without an asset: None
NoAsset == [present |-> FALSE, asset_type |-> "", id |-> 0, time_estimation |-> 0]

\* the asset of a lecture: none, a video, an article
Assets ==
    { NoAsset,
      [present |-> TRUE, asset_type |-> "Video", id |-> 7, time_estimation |-> 60],
      [present |-> TRUE, asset_type |-> "Article", id |-> 8, time_estimation |-> 0] }

\* file names, "." being a symbol of its own: notes, notes.pdf, a.tar.gz, notes.
Filenames ==
    { <<"notes">>, <<"notes", ".", "pdf">>, <<"a", ".", "tar", ".", "gz">>,
      <<"notes", ".">> }

\* a supplementary asset: a file or a link, with a filename or without the key
SuppShapes ==
    {[asset_type |-> t, has_filename |-> TRUE, filename |-> f] :
        t \in {"File", "ExternalLink"}, f \in Filenames}
      \cup {[asset_type |-> t, has_filename |-> FALSE, filename |-> <<>>] :
               t \in {"File", "ExternalLink"}}

\* item.get("supplementary_assets"): None when the feed item has no such field,
\* or a list of up to MaxSupps assets with the ids 11, 12, ...
SuppLists ==
    {[present |-> FALSE, list |-> <<>>]}
      \cup UNION {{[present |-> TRUE,
                    list |-> [i \in 1..n |->
                                [id |-> 10 + i, asset_type |-> shape[i].asset_type,
                                 has_filename |-> shape[i].has_filename,
                                 filename |-> shape[i].filename]]] :
                      shape \in [1..n -> SuppShapes]} : n \in 0..MaxSupps}

\* the lecture items of a curriculum feed, with their asset references
LectureItems ==
    {[_class |-> "lecture", id |-> 1, title |-> <<"title", "1">>,
      asset |-> a, supplementary_assets |-> sa] : a \in Assets, sa \in SuppLists}

\* the answer to GET /api-2.0/assets/{id}/ with fields download_urls: an error
\* status, no download_urls.File, or one file
FileResponses ==
    { [ok |-> FALSE, files |-> <<>>], [ok |-> TRUE, files |-> <<>>],
      [ok |-> TRUE, files |-> << <<"file">> >>] }

\* the answers for the video asset that the lesson may look up
LessonVideoResponses ==
    { [ok |-> FALSE, media_sources |-> <<>>, download_videos |-> <<>>],
      [ok |-> TRUE,
       media_sources |-> << [has_label |-> TRUE, label |-> <<"7", "2", "0", "p">>,
                             src |-> <<"src", "1">>] >>,
       download_videos |-> <<>>] }

NoUrl == [has_url |-> FALSE, url |-> <<>>]

\* UdemyPlatform._get_attachment_url: files[0].get("file"), None when the request
\* fails or the asset has no download_urls.File
_get_attachment_url(resp) ==
    IF raise_for_status(resp.ok) THEN NoUrl
    ELSE IF resp.files /= <<>> THEN [has_url |-> TRUE, url |-> resp.files[1]]
    ELSE NoUrl

\* the extension taken after the first "." instead of the last
extension_after_first_dot(filename) ==
    IF Contains(filename, ".") THEN Split(filename, ".")[2] ELSE <<>>

\* supp.get("filename").split(".")[-1] if "." in supp.get("filename") else ""
Extension(filename) ==
    IF Contains(filename, ".") THEN Last(Split(filename, ".")) ELSE <<>>

Attachment(supp, u, idx) ==
    [attachment_id |-> <<ToString(supp.id)>>, url |-> u.url, filename |-> supp.filename,
     order |-> idx, extension |-> Extension(supp.filename), size |-> 0]

\* the loop over supp_assets from position idx on; it raises TypeError at a file
\* with a URL whose filename is None ("." in None)
RECURSIVE Attachments(_, _, _, _)
Attachments(supp_assets, responses, idx, attachments) ==
    IF idx > Len(supp_assets) THEN [raised |-> FALSE, attachments |-> attachments]
    ELSE IF /\ supp_assets[idx].asset_type = "File"
            /\ _get_attachment_url(responses[idx]).has_url
         THEN IF ~supp_assets[idx].has_filename
              THEN [raised |-> TRUE, attachments |-> attachments]
              ELSE Attachments(supp_assets, responses, idx + 1,
                               Append(attachments,
                                      Attachment(supp_assets[idx],
                                                 _get_attachment_url(responses[idx]), idx)))
    ELSE Attachments(supp_assets, responses, idx + 1, attachments)

\* content.videos: the video of the lesson's asset when it is a video that resolves
Videos(l, resp) ==
    IF /\ l.asset.present
       /\ l.asset.asset_type = "Video"
       /\ l.asset.id /= 0
       /\ VideoDetails(resp).has_url
    THEN << [video_id |-> <<ToString(l.asset.id)>>,
             url |-> VideoDetails(resp).url,
             order |-> 1,
             title |-> l.name \o <<" - ">> \o
                       (IF VideoDetails(resp).has_quality
                        THEN VideoDetails(resp).quality ELSE <<"None">>),
             size |-> 0,
             duration |-> l.asset.time_estimation] >>
    ELSE <<>>

NoContent == [done |-> FALSE, raised |-> FALSE, error |-> "", videos |-> <<>>,
              attachments |-> <<>>]

LessonRaised(err) == [NoContent EXCEPT !.done = TRUE, !.raised = TRUE, !.error = err]

\* what fetch_lesson_details does for the lesson l: lesson.get("supplementary_assets", [])
\* is None when the record holds None, and enumerate(None, 1) raises TypeError
LessonDetails(l, resp, responses) ==
    IF ~l.supplementary_assets.present THEN LessonRaised("TypeError")
    ELSE IF Attachments(l.supplementary_assets.list, responses, 1, <<>>).raised
         THEN LessonRaised("TypeError")
    ELSE [done |-> TRUE, raised |-> FALSE, error |-> "",
          videos |-> Videos(l, resp),
          attachments |->
              Attachments(l.supplementary_assets.list, responses, 1, <<>>).attachments]

LessonIdle ==
    /\ lesson = Lesson([_class |-> "lecture", id |-> 1, title |-> <<"title", "1">>,
                         asset |-> NoAsset,
                         supplementary_assets |-> [present |-> FALSE, list |-> <<>>]])
    /\ file_responses = <<>>
    /\ lesson_content = NoContent

\* UdemyPlatform.fetch_lesson_details
fetch_lesson_details ==
    /\ ~lesson_content.done
    /\ lesson_content' = LessonDetails(lesson, asset_response, file_responses)
    /\ UNCHANGED <<lesson, file_responses>>
    /\ UNCHANGED <<captureVars, cookieVars, authVars, crawlVars, videoVars>>

CookieIdle ==
    /\ cookies_in = <<>>
    /\ header_sep = <<>>
    /\ cookie_value = <<>>
    /\ header_checked = FALSE
    /\ header_ok = FALSE

InitCapture ==
    CaptureInit /\ CookieIdle /\ AuthIdle /\ CrawlIdle /\ VideoIdle /\ LessonIdle

SpecCapture == InitCapture /\ [][CaptureNext]_vars

\* names of the cookies a header carries: the text of each part before its first "="
CookieNamesIn(cookie_header) ==
    LET parts == cookie_parts(cookie_header)
    IN {Split(parts[i], "=")[1] : i \in 1..Len(parts)}

IsCookieArtifact(token) == token.is_json /\ token.doc.token_type = "cookie"

CompleteCookies(cookie_header) ==
    LET names == CookieNamesIn(cookie_header)
    IN \A r \in RequiredNames : <<r>> \in names

\* C1: every cookie-type artifact that the listener is building, that sits in the
\* queue, or that the call has returned carries all four required cookies
C1_OnlyCompleteCookiesSurface ==
    /\ \A i \in 1..Len(pending) : CompleteCookies(pending[i].cookie)
    /\ \A i \in 1..Len(found_token_queue) :
          IsCookieArtifact(found_token_queue[i].token)
             => CompleteCookies(found_token_queue[i].token.doc.cookie)
    /\ (capture_result.has_token /\ IsCookieArtifact(capture_result.token))
          => CompleteCookies(capture_result.token.doc.cookie)

\* a cookie artifact built by the request listener was returned
C1_Witness ==
    /\ capture_result.has_token
    /\ IsCookieArtifact(capture_result.token)
    /\ capture_result.url = UsersMeUrl

----------------------------------------------------------------------------
(* The capture with time in discrete ticks: every step of the loop and of the  *)
(* listener is instantaneous, and the clock advances only while the loop is    *)
(* inside one of its three asyncio.sleep calls                                  *)

Sleeping == pc \in {"settle", "incomplete_sleep", "poll_sleep"}

SleepTick ==
    /\ Sleeping
    /\ now < wake
    /\ Tick

TickingCaptureNext ==
    \/ SetCookie
    \/ SleepTick
    \/ handle_request
    \/ handle_request_put
    \/ LoopTest
    \/ CheckLoggedIn
    \/ SettleDone
    \/ ReadCookies
    \/ SleepDone
    \/ ReturnCookies

SpecCaptureTicks == InitCapture /\ [][TickingCaptureNext]_vars

\* C13: the call is never still running after the deadline fixed at call start,
\* and never returns after it
C13_FinishesByDeadline ==
    /\ capture_result.status = "running" => now <= end_time
    /\ capture_result.status = "returned" => now <= end_time

\* C14: the call returns (None, None) only when no artifact was handed off to
\* the queue before the deadline
C14_NoArtifactLostToTimeout ==
    (capture_result.status = "returned" /\ ~capture_result.has_token) =>
        \A i \in 1..Len(found_token_queue) : ~found_token_queue[i].in_time

C19_IncompleteJarKeepsPolling ==
    [][ /\ (pc = "cookies" /\ pc' /= "cookies" /\ ~_has_required_cookies(CookieStr(jar))) =>
              /\ pc' \in {"incomplete_sleep", "poll_sleep"}
              /\ capture_result' = Running
        /\ (pc \in {"incomplete_sleep", "poll_sleep"} /\ pc' /= pc) =>
              /\ pc' = "loop"
              /\ capture_result' = Running
        /\ (pc = "cookies" /\ pc' /= "cookies" /\ _has_required_cookies(CookieStr(jar))) =>
              /\ pc' = "build"
              /\ cookie_str' = CookieStr(jar)
              /\ capture_result' = Running
        /\ (pc = "build" /\ pc' /= "build") =>
              /\ capture_result'.status = "returned"
              /\ capture_result'.has_token
              /\ IsCookieArtifact(capture_result'.token)
              /\ capture_result'.token.doc.cookie = cookie_str
              /\ capture_result'.url = HomeUrl
      ]_vars

\* an incomplete jar was read and a later iteration returned the cookie artifact
C19_Witness ==
    /\ incomplete_logged
    /\ capture_result.has_token
    /\ IsCookieArtifact(capture_result.token)
    /\ capture_result.url = HomeUrl
    /\ now < end_time + SettleDelay

----------------------------------------------------------------------------
(* _has_required_cookies on headers built from a list of cookies *)

CookieNamePool ==
    {<<required[i]>> : i \in 1..Len(required)}
        \cup {<<"x", "csrftoken">>, <<"csrftoken", "x">>}

HeaderSeps == {<<";", " ">>, <<";">>, <<" ", ";", " ">>}

CookieValues == {<<"v">>, <<>>, <<"a", "=", "b">>}

NoDuplicates(s) == \A i, j \in 1..Len(s) : s[i] = s[j] => i = j

CookieLists ==
    UNION {{s \in [1..n -> CookieNamePool] : NoDuplicates(s)} : n \in 0..MaxCookies}

\* the header a browser sends for these cookies: name=value joined by the separator
HeaderOf(cookies, sep, value) ==
    Join([i \in 1..Len(cookies) |-> cookies[i] \o <<"=">> \o value], sep)

CaptureIdle ==
    /\ pc = "done"
    /\ now = 0
    /\ end_time = 0
    /\ wake = 0
    /\ found_token_queue = <<>>
    /\ pending = <<>>
    /\ jar = {}
    /\ cookie_str = <<>>
    /\ incomplete_logged = FALSE
    /\ capture_result = Running

InitCookies ==
    /\ cookies_in \in CookieLists
    /\ header_sep \in HeaderSeps
    /\ cookie_value \in CookieValues
    /\ header_checked = FALSE
    /\ header_ok = FALSE
    /\ CaptureIdle
    /\ AuthIdle
    /\ CrawlIdle
    /\ VideoIdle
    /\ LessonIdle

CheckHeader ==
    /\ ~header_checked
    /\ header_checked' = TRUE
    /\ header_ok' = _has_required_cookies(HeaderOf(cookies_in, header_sep, cookie_value))
    /\ UNCHANGED <<cookies_in, header_sep, cookie_value>>
    /\ UNCHANGED <<captureVars, authVars, crawlVars, videoVars, lessonVars>>

SpecCookies == InitCookies /\ [][CheckHeader]_vars

\* C2: the check answers true exactly for the headers that carry a cookie named
\* each of the four required names, whatever the order and the other cookies
C2_RequiredIffAllFour ==
    header_checked =>
        (header_ok <=>
            \A r \in RequiredNames : \E i \in 1..Len(cookies_in) : cookies_in[i] = <<r>>)

\* accepted: the four required cookies out of order with a fifth cookie whose
\* name only extends a required one
C2_Witness ==
    /\ header_checked
    /\ header_ok
    /\ Len(cookies_in) = 5
    /\ cookies_in[1] = <<"dj_session_id">>
    /\ cookies_in[2] = <<"csrftoken", "x">>

----------------------------------------------------------------------------
(* authenticate on every artifact *)

InitAuth ==
    /\ op_log = <<>>
    /\ credentials \in [browser_emulation : EmulationSettings]
    /\ fetch_token_calls = 0
    /\ auth_error = ""
    /\ token_data = NoToken
    /\ session = NoSession
    /\ captured_storage = NoStorage
    /\ CaptureIdle
    /\ CookieIdle
    /\ CrawlIdle
    /\ VideoIdle
    /\ LessonIdle

SpecAuth == InitAuth /\ [][authenticate]_vars

CookieDerivedHeaders ==
    {"Cookie", "X-CSRFToken", "X-Requested-With", "X-Udemy-Cache-Logged-In"}
        \cup {CacheHeaders[i][1] : i \in 1..Len(CacheHeaders)}

BearerShaped(token) ==
    /\ ~token.is_json
    /\ Len(token.text) >= 2
    /\ token.text[1] \in {"Bearer", "bearer", "BEARER"}
    /\ token.text[2] = " "

\* C10: for a bearer-shaped artifact the session carries the artifact verbatim as
\* Authorization and none of the cookie-derived headers
C10_BearerVerbatimOnly ==
    (session.open /\ BearerShaped(token_data)) =>
        /\ "Authorization" \in DOMAIN session.headers
        /\ session.headers["Authorization"] = token_data.text
        /\ CookieDerivedHeaders \cap DOMAIN session.headers = {}

\* authenticate has run on "Bearer abc123"
C10_Witness ==
    /\ session.open
    /\ token_data = Str(<<"Bearer", " ", "abc123">>)
    /\ "Authorization" \in DOMAIN session.headers

\* the artifact is a plain cookie string, which authenticate hands whole to
\* _apply_cookie_headers
PlainCookieString(token) == ~token.is_json /\ token.text \in CookieStrings

\* the cookie named cookie_key is in the string, with whatever value
CookiePresent(cookie_content, cookie_key) ==
    \E i \in 1..Len(cookie_parts(cookie_content)) :
        StartsWith(cookie_parts(cookie_content)[i], <<cookie_key, "=">>)

\* the value of the cookie named cookie_key
CookieValueOf(cookie_content, cookie_key) ==
    LET parts == cookie_parts(cookie_content)
        i == CHOOSE k \in 1..Len(parts) : StartsWith(parts[k], <<cookie_key, "=">>)
    IN SubSeq(parts[i], 3, Len(parts[i]))

\* C11 as stated: each of the ten cookies has its header set to its value when
\* the cookie is present in the string, and unset when it is absent
C11_HeaderIffCookiePresent ==
    (session.open /\ PlainCookieString(token_data)) =>
        \A n \in 1..Len(CacheHeaders) :
            IF CookiePresent(token_data.text, CacheHeaders[n][2])
            THEN /\ CacheHeaders[n][1] \in DOMAIN session.headers
                 /\ session.headers[CacheHeaders[n][1]] =
                        CookieValueOf(token_data.text, CacheHeaders[n][2])
            ELSE CacheHeaders[n][1] \notin DOMAIN session.headers

\* C11: each of the ten cookies has its header set to its value when the cookie
\* is present with a non-empty value, and unset when it is absent or empty; the
\* call completes for every cookie string
C11_HeaderIffCookieNonEmpty ==
    (session.open /\ PlainCookieString(token_data)) =>
        /\ session.headers["Cookie"] = token_data.text
        /\ \A n \in 1..Len(CacheHeaders) :
              IF /\ CookiePresent(token_data.text, CacheHeaders[n][2])
                 /\ CookieValueOf(token_data.text, CacheHeaders[n][2]) /= <<>>
              THEN /\ CacheHeaders[n][1] \in DOMAIN session.headers
                   /\ session.headers[CacheHeaders[n][1]] =
                          CookieValueOf(token_data.text, CacheHeaders[n][2])
              ELSE CacheHeaders[n][1] \notin DOMAIN session.headers

\* _apply_cookie_headers ran on a string with client_id set, ud_cache_user empty
\* and ud_cache_release absent
C11_Witness ==
    /\ session.open
    /\ PlainCookieString(token_data)
    /\ CookiePresent(token_data.text, "client_id")
    /\ CookieValueOf(token_data.text, "client_id") /= <<>>
    /\ CookiePresent(token_data.text, "ud_cache_user")
    /\ CookieValueOf(token_data.text, "ud_cache_user") = <<>>
    /\ ~CookiePresent(token_data.text, "ud_cache_release")
    /\ "X-Udemy-Client-Id" \in DOMAIN session.headers
    /\ "X-Udemy-Cache-User" \notin DOMAIN session.headers

\* C12: without browser emulation in the credentials authenticate ends in a
\* connection error, the token fetcher is never invoked, and the platform has
\* no session and no headers
C12_NoEmulationRejectedEarly ==
    ~use_browser_emulation(credentials) =>
        /\ fetch_token_calls = 0
        /\ auth_error \in {"", "ConnectionError"}
        /\ token_data = NoToken
        /\ session = NoSession

\* authenticate has failed on credentials that set browser_emulation to False
C12_Witness ==
    /\ credentials.browser_emulation = "False"
    /\ auth_error = "ConnectionError"
    /\ fetch_token_calls = 0
    /\ ~session.open

\* neither a cookie payload, nor prefixed with Cookie:, nor bearer-shaped
Unrecognized(token) ==
    /\ ~(token.is_json /\ token.doc.token_type = "cookie" /\ token.doc.cookie /= <<>>)
    /\ ~(token.text /= <<>> /\ token.text[1] = "Cookie:")
    /\ ~BearerShaped(token)

\* C23: after authenticate has returned the session has exactly one of the
\* Authorization and Cookie headers, and for a string that is not recognised it
\* is the Cookie header, holding the string
C23_ExactlyOneAuthMode ==
    session.open =>
        /\ ("Authorization" \in DOMAIN session.headers)
              /= ("Cookie" \in DOMAIN session.headers)
        /\ Unrecognized(token_data) =>
              /\ "Cookie" \in DOMAIN session.headers
              /\ session.headers["Cookie"] = token_data.text

\* authenticate has run on the string abc123
C23_Witness ==
    /\ session.open
    /\ token_data = Str(<<"abc123">>)
    /\ Unrecognized(token_data)
    /\ session.headers["Cookie"] = <<"abc123">>
    /\ "Authorization" \notin DOMAIN session.headers

\* authenticate has run on the empty string
C23_WitnessEmpty ==
    /\ session.open
    /\ token_data = Str(<<>>)
    /\ "Cookie" \in DOMAIN session.headers

----------------------------------------------------------------------------
(* The crawl: one call of fetch_courses, or one of fetch_course_content *)

BearerSession ==
    [open |-> TRUE, headers |-> SessionHeaders(Str(<<"Bearer", " ", "abc123">>))]

Batches ==
    {[i \in 1..n |-> Course([id |-> 100 + i, has_url |-> TRUE,
                             url |-> <<"/", "course", "/", "python", "/">>])] :
        n \in 0..MaxCourses}

InitCrawl ==
    /\ op \in {"fetch_courses", "fetch_course_content"}
    /\ courses \in (IF op = "fetch_courses" THEN {<<>>} ELSE Batches)
    /\ session \in {NoSession, BearerSession}
    /\ crawl_pc = "start"
    /\ error = ""
    /\ url = <<>>
    /\ all_courses = <<>>
    /\ course_idx = 0
    /\ current_url = <<>>
    /\ first_call = FALSE
    /\ items = <<>>
    /\ final_structure = <<>>
    /\ http_log = <<>>
    /\ served = <<>>
    /\ feeds = <<>>
    /\ next_id = 1
    /\ op_log = (IF session.open THEN <<"authenticated">> ELSE <<>>)
    /\ credentials = NoCredentials
    /\ fetch_token_calls = 0
    /\ auth_error = ""
    /\ token_data = NoToken
    /\ captured_storage = NoStorage
    /\ CaptureIdle
    /\ CookieIdle
    /\ VideoIdle
    /\ LessonIdle

CrawlNext ==
    \/ fetch_courses
    \/ fetch_courses_page
    \/ fetch_course_content
    \/ _fetch_curriculum
    \/ fetch_course_content_group

SpecCrawl == InitCrawl /\ [][CrawlNext]_vars

\* the results of the pages served, in the order they were requested
ResultsOf(pages) == Flatten([i \in 1..Len(pages) |-> pages[i].results])

ListingRuns == op = "fetch_courses" /\ served /= <<>>

CurriculumRuns ==
    op = "fetch_course_content" /\ crawl_pc \in {"fetch", "group"} /\ served /= <<>>

\* _fetch_curriculum alone: it goes on exactly after a page with a next, stops at
\* the first page without one, and holds the pages' results in order
CurriculumPaginationExact ==
    CurriculumRuns =>
        /\ \A i \in 1..(Len(served) - 1) : served[i].next /= <<>>
        /\ IF Last(served).next = <<>>
           THEN crawl_pc = "group" /\ items = ResultsOf(served)
           ELSE crawl_pc = "fetch" /\ current_url = Last(served).next

\* C3: in fetch_courses and in _fetch_curriculum, after successful pages the loop
\* goes on exactly when the last page carried a next, stops at the first page
\* without one, and returns the pages' results concatenated in request order
C3_PaginationExact ==
    /\ CurriculumPaginationExact
    /\ ListingRuns =>
          /\ \A i \in 1..(Len(served) - 1) : served[i].next /= <<>>
          /\ IF Last(served).next = <<>>
             THEN crawl_pc = "returned" /\ all_courses = Courses(ResultsOf(served))
             ELSE crawl_pc = "loop" \/ Len(http_log) > Len(served)

\* C4: only the first request of a listing carries query parameters, and every
\* later request goes to the next URL of the page before it
C4_ParamsOnlyOnFirstRequest ==
    /\ \A i \in 1..Len(http_log) : (http_log[i].params /= "none") <=> (i = 1)
    /\ \A i \in 2..Len(http_log) : http_log[i].url = served[i - 1].next

\* _fetch_curriculum alone sends its parameters with the first request only
CurriculumParamsOnlyOnFirstRequest ==
    op = "fetch_course_content" => C4_ParamsOnlyOnFirstRequest

\* C5: fetch_courses returns a list only when every request succeeded up to the
\* page without a next; one failed request ends the call in an error
C5_ListingAllOrNothing ==
    op = "fetch_courses" =>
        /\ (\E i \in 1..Len(http_log) : ~http_log[i].ok) => crawl_pc = "raised"
        /\ crawl_pc = "returned" =>
              /\ \A i \in 1..Len(http_log) : http_log[i].ok
              /\ Len(served) = Len(http_log)
              /\ served /= <<>>
              /\ Last(served).next = <<>>

\* the second request failed after a first page with rows had been projected
C5_Witness ==
    /\ op = "fetch_courses"
    /\ crawl_pc = "raised"
    /\ error = "HTTPError"
    /\ Len(http_log) = 2
    /\ Len(all_courses) >= 1

\* the slug a row is to get: the second-to-last segment of its URL, the empty
\* string when the URL is absent or has fewer than two segments
ExpectedSlug(row) ==
    LET segments == SelectSeq(Split(row.url, "/"), LAMBDA seg : seg /= <<>>)
    IN IF row.has_url /\ Len(segments) >= 2 THEN segments[Len(segments) - 1] ELSE <<>>

\* C15: every row of every page served gets a course whose slug is the
\* second-to-last segment of the row's URL, or the empty string when the URL is
\* absent or too short, and no row makes the listing fail
C15_SlugNeverFailsListing ==
    (op = "fetch_courses" /\ served /= <<>>) =>
        /\ error /= "IndexError"
        /\ Len(all_courses) = Len(ResultsOf(served))
        /\ \A i \in 1..Len(all_courses) :
              all_courses[i].slug = ExpectedSlug(ResultsOf(served)[i])

Lessons(curriculum) ==
    LET lectures == SelectSeq(curriculum, IsLecture)
    IN [i \in 1..Len(lectures) |-> Lesson(lectures[i])]

HasChapter(curriculum) == \E i \in 1..Len(curriculum) : IsChapter(curriculum[i])

\* positions of the chapters of a feed, in feed order
ChapterPositions(curriculum) ==
    SelectSeq([i \in 1..Len(curriculum) |-> i], LAMBDA i : IsChapter(curriculum[i]))

\* the lessons of the lectures strictly between positions a and b
LessonsBetween(curriculum, a, b) == Lessons(SubSeq(curriculum, a + 1, b - 1))

\* one module per chapter, each with the lectures up to the next chapter
ChapterModules(curriculum) ==
    LET at == ChapterPositions(curriculum)
        stop(j) == IF j < Len(at) THEN at[j + 1] ELSE Len(curriculum) + 1
    IN [j \in 1..Len(at) |->
           [ChapterModule(curriculum[at[j]])
               EXCEPT !.lessons = LessonsBetween(curriculum, at[j], stop(j))]]

Fetched(i) == op = "fetch_course_content" /\ i \in 1..Len(feeds) /\ ~feeds[i].failed

\* C6: a course whose feed has no chapter gets exactly one module, the default
\* module named after the course, holding its lectures in feed order
C6_NoChapterOneDefaultModule ==
    \A i \in 1..Len(feeds) :
        (Fetched(i) /\ ~HasChapter(feeds[i].items)) =>
            feeds[i].modules =
                << [id |-> <<"c_">> \o courses[i].id \o <<"_default">>,
                    name |-> courses[i].name,
                    lessons |-> Lessons(feeds[i].items)] >>

\* a feed lecture, quiz, lecture ended in one module of two lessons
C6_Witness ==
    \E i \in 1..Len(feeds) :
        /\ Fetched(i)
        /\ Len(feeds[i].items) = 3
        /\ IsLecture(feeds[i].items[1])
        /\ feeds[i].items[2]._class = "quiz"
        /\ IsLecture(feeds[i].items[3])
        /\ Len(feeds[i].modules) = 1
        /\ Len(feeds[i].modules[1].lessons) = 2

LectureBeforeFirstChapter(curriculum) ==
    /\ HasChapter(curriculum)
    /\ \E i \in 1..(ChapterPositions(curriculum)[1] - 1) : IsLecture(curriculum[i])

\* C7: with a lecture before the first chapter, the course gets one startup module
\* first, holding the lectures before the first chapter, then one module per
\* chapter holding the lectures up to the next chapter
C7_StartupThenChapters ==
    \A i \in 1..Len(feeds) :
        (Fetched(i) /\ LectureBeforeFirstChapter(feeds[i].items)) =>
            feeds[i].modules =
                << [id |-> <<"c_">> \o courses[i].id \o <<"_startup">>,
                    name |-> <<"Introduction">>,
                    lessons |-> LessonsBetween(feeds[i].items, 0,
                                    ChapterPositions(feeds[i].items)[1])] >>
                \o ChapterModules(feeds[i].items)

\* the feed lecture, chapter, lecture, lecture ended in two modules
C7_Witness ==
    \E i \in 1..Len(feeds) :
        /\ Fetched(i)
        /\ Len(feeds[i].items) = 4
        /\ IsLecture(feeds[i].items[1])
        /\ IsChapter(feeds[i].items[2])
        /\ IsLecture(feeds[i].items[3])
        /\ IsLecture(feeds[i].items[4])
        /\ Len(feeds[i].modules) = 2
        /\ Len(feeds[i].modules[2].lessons) = 2

\* what course i would produce if it were processed alone
Alone(i) ==
    IF feeds[i].failed THEN <<>>
    ELSE GroupCurriculum(courses[i], feeds[i].items, <<>>)

\* C8: fetch_course_content never raises; the courses whose fetch raised add no
\* module, and the tree is, in batch order, what each other course gives alone
C8_FailedCoursesSkipped ==
    op = "fetch_course_content" =>
        /\ crawl_pc /= "raised"
        /\ error = ""
        /\ crawl_pc /= "start" =>
              final_structure = Flatten([i \in 1..Len(feeds) |-> Alone(i)])
        /\ crawl_pc = "returned" => Len(feeds) = Len(courses)

\* the call returned with the first course failed after a fetched page and the
\* second course grouped
C8_Witness ==
    /\ op = "fetch_course_content"
    /\ crawl_pc = "returned"
    /\ Len(feeds) = 2
    /\ feeds[1].failed
    /\ ~feeds[2].failed
    /\ Len(final_structure) >= 2
    /\ next_id > Len(feeds[2].items) + 1

\* the feed with the items that are neither chapter nor lecture removed
Interpreted(curriculum) ==
    SelectSeq(curriculum, LAMBDA item : IsChapter(item) \/ IsLecture(item))

\* C20: an item whose kind is neither chapter nor lecture changes nothing: the
\* modules of every fetched course are those of its feed with such items removed
C20_OtherKindsChangeNothing ==
    \A i \in 1..Len(feeds) :
        Fetched(i) =>
            feeds[i].modules =
                GroupCurriculum(courses[i], Interpreted(feeds[i].items), <<>>)

\* the feed chapter, lecture, quiz, lecture ended in one module of two lessons
C20_Witness ==
    \E i \in 1..Len(feeds) :
        /\ Fetched(i)
        /\ Len(feeds[i].items) = 4
        /\ IsChapter(feeds[i].items[1])
        /\ IsLecture(feeds[i].items[2])
        /\ feeds[i].items[3]._class = "quiz"
        /\ IsLecture(feeds[i].items[4])
        /\ Len(feeds[i].modules) = 1
        /\ Len(feeds[i].modules[1].lessons) = 2

\* the lessons of a run of modules, module after module
LessonsOf(modules) == Flatten([j \in 1..Len(modules) |-> modules[j].lessons])

\* C22: the modules of a fetched course hold the lessons of its lectures, each
\* once and in feed order, and the tree is the modules of the courses one after
\* the other, so no lesson sits in a module made for another course
C22_EveryLectureOnceInOrder ==
    (op = "fetch_course_content" /\ crawl_pc /= "start") =>
        /\ final_structure = Flatten([i \in 1..Len(feeds) |-> feeds[i].modules])
        /\ \A i \in 1..Len(feeds) :
              /\ Fetched(i) => LessonsOf(feeds[i].modules) = Lessons(feeds[i].items)
              /\ feeds[i].failed => feeds[i].modules = <<>>

\* two fetched courses, the second opening with a lecture before its chapter
C22_Witness ==
    /\ op = "fetch_course_content"
    /\ crawl_pc = "returned"
    /\ Len(feeds) = 2
    /\ Fetched(1)
    /\ Fetched(2)
    /\ Len(Lessons(feeds[1].items)) >= 1
    /\ Len(feeds[2].items) = 2
    /\ IsLecture(feeds[2].items[1])
    /\ IsChapter(feeds[2].items[2])
    /\ Len(feeds[2].modules) = 2
    /\ Len(final_structure) = Len(feeds[1].modules) + 2

----------------------------------------------------------------------------
(* _get_video_details on every asset response *)

InitVideo ==
    /\ asset_response \in AssetResponses
    /\ video_result = [done |-> FALSE, value |-> NoVideo]
    /\ CaptureIdle
    /\ CookieIdle
    /\ AuthIdle
    /\ CrawlIdle
    /\ LessonIdle

SpecVideo == InitVideo /\ [][_get_video_details]_vars

\* source i is the first of the sources with the highest parsed label
FirstHighest(media_sources, i) ==
    /\ \A j \in 1..Len(media_sources) : Res(media_sources[j]) <= Res(media_sources[i])
    /\ \A j \in 1..(i - 1) : Res(media_sources[j]) < Res(media_sources[i])

\* C9: with media sources, the URL and the label returned are those of the first
\* source among those whose label parses to the highest value
C9_HighestFirstSeen ==
    (video_result.done /\ asset_response.ok /\ asset_response.media_sources /= <<>>) =>
        \E i \in 1..Len(asset_response.media_sources) :
            /\ FirstHighest(asset_response.media_sources, i)
            /\ video_result.value = FromSource(asset_response.media_sources[i])

\* 1080p, 480p, 1080p: the first 1080p source was returned
C9_Witness ==
    /\ video_result.done
    /\ asset_response.ok
    /\ Len(asset_response.media_sources) = 3
    /\ asset_response.media_sources[1].label = <<"1", "0", "8", "0", "p">>
    /\ asset_response.media_sources[2].label = <<"4", "8", "0", "p">>
    /\ asset_response.media_sources[3].label = <<"1", "0", "8", "0", "p">>
    /\ video_result.value.url = <<"src", "1">>

Downloaded(value) == value.has_quality /\ value.quality = <<"Download">>

\* C21: the download fallback is used only when the asset has no media sources,
\* and then gives the first entry of download_urls.Video labelled "Download";
\* with media sources the result is one of them and is not labelled "Download";
\* with neither there is no URL
C21_DownloadOnlyWithoutSources ==
    video_result.done =>
        /\ Downloaded(video_result.value) =>
              /\ asset_response.ok
              /\ asset_response.media_sources = <<>>
        /\ (asset_response.ok /\ asset_response.media_sources = <<>>
                /\ asset_response.download_videos /= <<>>) =>
              /\ video_result.value.has_url
              /\ video_result.value.url = asset_response.download_videos[1]
              /\ Downloaded(video_result.value)
        /\ (asset_response.ok /\ asset_response.media_sources /= <<>>) =>
              /\ \E i \in 1..Len(asset_response.media_sources) :
                    video_result.value = FromSource(asset_response.media_sources[i])
              /\ ~Downloaded(video_result.value)
        /\ (asset_response.media_sources = <<>>
                /\ asset_response.download_videos = <<>>) =>
              ~video_result.value.has_url

\* an asset without media sources was resolved through its download entry
C21_Witness ==
    /\ video_result.done
    /\ asset_response.ok
    /\ asset_response.media_sources = <<>>
    /\ asset_response.download_videos /= <<>>
    /\ Downloaded(video_result.value)

\* an asset with media sources and a download entry was resolved from the sources
C21_WitnessSources ==
    /\ video_result.done
    /\ asset_response.ok
    /\ asset_response.media_sources /= <<>>
    /\ asset_response.download_videos /= <<>>
    /\ ~Downloaded(video_result.value)
    /\ video_result.value.has_url

----------------------------------------------------------------------------
(* fetch_lesson_details on the lesson record of every lecture item *)

InitLesson ==
    /\ lesson \in {Lesson(item) : item \in LectureItems}
    /\ asset_response \in LessonVideoResponses
    /\ file_responses \in [1..Len(lesson.supplementary_assets.list) -> FileResponses]
    /\ video_result = [done |-> FALSE, value |-> NoVideo]
    /\ lesson_content = NoContent
    /\ CaptureIdle
    /\ CookieIdle
    /\ AuthIdle
    /\ CrawlIdle

SpecLesson == InitLesson /\ [][fetch_lesson_details]_vars

\* positions of the supplementary assets that are files with a download URL
ResolvedFiles(l, responses) ==
    SelectSeq([i \in 1..Len(l.supplementary_assets.list) |-> i],
              LAMBDA i : /\ l.supplementary_assets.list[i].asset_type = "File"
                         /\ responses[i].ok
                         /\ responses[i].files /= <<>>)

\* C16: fetch_lesson_details returns a LessonContent for every lesson record; it
\* holds one attachment for each file asset whose lookup gave a URL, in order,
\* and the video when the lesson's video asset resolved
C16_LessonDetailsNeverRaises ==
    lesson_content.done =>
        /\ ~lesson_content.raised
        /\ Len(lesson_content.attachments) = Len(ResolvedFiles(lesson, file_responses))
        /\ \A k \in 1..Len(lesson_content.attachments) :
              lesson_content.attachments[k].order = ResolvedFiles(lesson, file_responses)[k]
        /\ (lesson_content.videos /= <<>>) <=>
              (lesson.asset.asset_type = "Video" /\ asset_response.ok)

\* the text after the last "." of a file name, empty when it has none
AfterLastDot(filename) ==
    IF \A i \in 1..Len(filename) : filename[i] /= "."
    THEN <<>>
    ELSE SubSeq(filename,
                (CHOOSE i \in 1..Len(filename) :
                    /\ filename[i] = "."
                    /\ \A j \in (i + 1)..Len(filename) : filename[j] /= ".") + 1,
                Len(filename))

\* C17: the extension of every attachment is the text after the last "." of its
\* filename, and empty when the filename has no "."
C17_ExtensionAfterLastDot ==
    \A k \in 1..Len(lesson_content.attachments) :
        lesson_content.attachments[k].extension =
            AfterLastDot(lesson_content.attachments[k].filename)

\* the attachments notes and a.tar.gz were resolved, with the extensions "" and gz
C17_Witness ==
    /\ lesson_content.done
    /\ Len(lesson_content.attachments) = 2
    /\ lesson_content.attachments[1].filename = <<"notes">>
    /\ lesson_content.attachments[1].extension = <<>>
    /\ lesson_content.attachments[2].filename = <<"a", ".", "tar", ".", "gz">>
    /\ lesson_content.attachments[2].extension = <<"gz">>

----------------------------------------------------------------------------
(* One platform object: authenticate and fetch_courses called in any order *)

\* a bearer artifact and a cookie payload
PlatformArtifacts ==
    { Str(<<"Bearer", " ", "abc123">>),
      _build_cookie_payload(AuthCookieStr({"csrftoken", "client_id"}), "{}", "storage") }

PlatformOutcomes ==
    {[raised |-> TRUE, token |-> NoToken]}
        \cup {[raised |-> FALSE, token |-> a] : a \in PlatformArtifacts}

\* no call of the platform is in progress
BetweenCalls == crawl_pc \in {"returned", "raised"}

\* the locals and the result of the fetch_courses call that has ended are gone
ForgetCall ==
    /\ op' = "none"
    /\ crawl_pc' = "returned"
    /\ error' = ""
    /\ url' = <<>>
    /\ all_courses' = <<>>
    /\ http_log' = <<>>
    /\ served' = <<>>
    /\ next_id' = 1
    /\ UNCHANGED <<courses, course_idx, current_url, first_call, items,
                   final_structure, feeds>>

\* UdemyPlatform.authenticate called with any credentials on a platform object
\* that may have been used before
authenticate_call ==
    /\ BetweenCalls
    /\ Len(op_log) < MaxOps
    /\ \E creds \in [browser_emulation : EmulationSettings] :
          Authenticate(creds, PlatformOutcomes)
    /\ ForgetCall
    /\ UNCHANGED <<captureVars, cookieVars, videoVars, lessonVars>>

\* fetch_courses is called: its locals are new; the account holds one course, so
\* the server has one row left to serve
fetch_courses_call ==
    /\ BetweenCalls
    /\ Len(op_log) < MaxOps
    /\ op_log' = Append(op_log, "fetch_courses")
    /\ op' = "fetch_courses"
    /\ crawl_pc' = "start"
    /\ error' = ""
    /\ url' = <<>>
    /\ all_courses' = <<>>
    /\ http_log' = <<>>
    /\ served' = <<>>
    /\ next_id' = MaxItems
    /\ UNCHANGED <<courses, course_idx, current_url, first_call, items,
                   final_structure, feeds>>
    /\ UNCHANGED <<credentials, fetch_token_calls, auth_error, token_data, session,
                   captured_storage>>
    /\ UNCHANGED <<captureVars, cookieVars, videoVars, lessonVars>>

\* the platform object after __init__: no session, nothing called
InitPlatform ==
    CaptureIdle /\ CookieIdle /\ AuthIdle /\ CrawlIdle /\ VideoIdle /\ LessonIdle

PlatformNext ==
    \/ authenticate_call
    \/ fetch_courses_call
    \/ fetch_courses
    \/ fetch_courses_page

SpecPlatform == InitPlatform /\ [][PlatformNext]_vars

\* some authenticate call so far has returned
Authenticated == \E i \in 1..Len(op_log) : op_log[i] = "authenticated"

\* the latest authenticate call so far has raised
LastAuthFailed ==
    LET auths == SelectSeq(op_log, LAMBDA e : e /= "fetch_courses")
    IN auths /= <<>> /\ auths[Len(auths)] = "authenticate_failed"

\* the step in which fetch_courses tests the session
Entered == op = "fetch_courses" /\ crawl_pc = "start" /\ crawl_pc' /= "start"

\* the call ends in a connection error with no request made
Refused == crawl_pc' = "raised" /\ error' = "ConnectionError" /\ http_log' = <<>>

\* the step issues an HTTP request
Requested == Len(http_log') > Len(http_log)

\* C24 as stated: fetch_courses issues a request only after an authenticate
\* call has returned, and it is refused when no authenticate has returned yet
\* and whenever the latest authenticate raised
C24_RefusedAfterAnyFailure ==
    [][ /\ Requested => Authenticated
        /\ (Entered /\ (~Authenticated \/ LastAuthFailed)) => Refused
      ]_vars

\* C24: fetch_courses issues a request only after an authenticate call has
\* returned; while none has returned, also after calls that raised, it is
\* refused with a connection error and no request; once one has returned it
\* goes on to the listing, also when a later authenticate raised
C24_RefusedUntilAuthenticated ==
    [][ /\ Requested => Authenticated
        /\ (Entered /\ ~Authenticated) => Refused
        /\ (Entered /\ Authenticated) => (crawl_pc' = "loop" /\ error' = "")
      ]_vars

\* authenticate raised and the fetch_courses called after it was refused
C24_Witness ==
    /\ op_log = <<"authenticate_failed", "fetch_courses">>
    /\ crawl_pc = "raised"
    /\ error = "ConnectionError"
    /\ http_log = <<>>

\* authenticate returned, a second authenticate raised, and the fetch_courses
\* called after it issued a request
C24_WitnessStaleSession ==
    /\ op_log = <<"authenticated", "authenticate_failed", "fetch_courses">>
    /\ http_log /= <<>>

=============================================================================
